---- MODULE Spec2Model ----
(***************************************************************************)
(* Elkano NI 43-101 extraction platform: the derived-metrics calculator,   *)
(* the status classifier, the response transformer, the extraction         *)
(* fallback pipeline of POST /api/extract, the text the fallback sends,    *)
(* the persistence gateway over the extractions table, the CSV exports,    *)
(* the ratio displays, the UploadZone and the Dashboard's record list.     *)
(*                                                                         *)
(* SpecCalc applies one pure function once; Spec runs requests to POST     *)
(* /api/extract step by step; SpecDb runs the calls of the gateway by      *)
(* several users under the row-level security policies; SpecUpload runs    *)
(* the processFile runs of one UploadZone with their delayed resets;       *)
(* SpecDash runs the requests of a page together with the Dashboard's      *)
(* upload-complete and delete handlers.                                    *)
(*                                                                         *)
(* Encoding of values.  A nullable value is a sequence: <<>> is null and   *)
(* <<x>> is the present value x.  A tonnage is an integer number of units  *)
(* (the unit cancels in the ratio); a ratio is an integer number of        *)
(* hundredths (250 is 2.50), which is the grain toFixed(2) produces.       *)
(* JavaScript doubles are modelled as exact rationals.  A string is a TLA+ *)
(* string or a pair <<field, variant>> so that the values of different     *)
(* fields are always different.                                            *)
(***************************************************************************)
EXTENDS Integers, Sequences, FiniteSets, TLC

VARIABLES
    call,        \* SpecCalc: the function applied and its arguments
    ret,         \* SpecCalc: the value it returned
    done,        \* SpecCalc: whether it has returned
    table,       \* the rows of the extractions table
    nextId,      \* the id (and creation time) the next inserted row gets
    updates,     \* number of updateExtraction calls that changed a row
    files,       \* the paths of the files in the storage bucket
    last,        \* the last call of the persistence gateway and its outcome
    pc,          \* position of the POST /api/extract request in flight
    req,         \* its caller and body
    native,      \* outcome of the native-document attempt
    text,        \* outcome of the text path
    extracted,   \* value returned by extractFromPdf
    transformed, \* record returned by the transformer
    err,         \* the exception caught by POST
    httpResponse, \* the response of the request
    trace,       \* the steps the request has taken, in order
    progress,    \* UploadZone: the state of its progress display
    runs,        \* UploadZone: the processFile runs, in the order they started
    timers,      \* UploadZone: number of delayed resets that are pending
    view         \* Dashboard: the ids of the records it lists, in order

calcVars == <<call, ret, done>>

dbVars == <<table, nextId, updates, files, last>>

reqVars == <<pc, req, native, text, extracted, transformed, err, httpResponse, trace>>

uiVars == <<progress, runs, timers, view>>

vars == <<call, ret, done, table, nextId, updates, files, last,
          pc, req, native, text, extracted, transformed, err, httpResponse, trace,
          progress, runs, timers, view>>

\* ---------------------------------------------------------------- bounds
\* tonnages range over -MaxMt..MaxMt
MaxMt == 6
\* ratios handed to computeResourceConfidence range over -MaxRatio..MaxRatio
MaxRatio == 210
\* at most MaxRows rows are ever inserted
MaxRows == 1
\* at most MaxUpdates updates change a row
MaxUpdates == 1

\* ---------------------------------------------------------------- values
Null == <<>>

Some(x) == <<x>>

IsNull(v) == v = <<>>

Val(v) == v[1]

\* JavaScript `!v` for a nullable number: null and 0 are falsy
Falsy(v) == IsNull(v) \/ Val(v) = 0

\* JavaScript `!v` for a nullable boolean: null and false are falsy
FalsyBool(v) == IsNull(v) \/ Val(v) = FALSE

Abs(n) == IF n < 0 THEN -n ELSE n

ReportStages == {"Preliminary Assessment", "PEA", "Pre-Feasibility", "PFS",
                 "Feasibility", "FS", "Resource Update", "Technical Report"}

RiskLevels == {"low", "moderate", "high"}

Priorities == {"high", "medium", "low", "pass"}

ResourceConfidences == {"high", "moderate", "low"}

INVESTIGATE == "INVESTIGATE"

WATCH == "WATCH"

PASS == "PASS"

Statuses == {INVESTIGATE, WATCH, PASS}

Nullable(S) == {Null} \cup {Some(x) : x \in S}

\* ------------------------------------------------- derived-metrics (4.1)
\* Number((i / f).toFixed(2)) in hundredths: the nearest hundredth, a tie
\* going to the larger magnitude
ToFixed2Trunc(i, f) ==
    LET q == (100 * Abs(i)) \div Abs(f)
    IN  IF (i < 0) # (f < 0) THEN -q ELSE q

ToFixed2(i, f) ==
    LET q == (200 * Abs(i) + Abs(f)) \div (2 * Abs(f))
    IN  IF (i < 0) # (f < 0) THEN -q ELSE q

computeIndInfRatio(indicated, inferred) ==
    IF Falsy(indicated) \/ Falsy(inferred) \/ inferred = Some(0)
    THEN Null
    ELSE Some(ToFixed2(Val(indicated), Val(inferred)))

computeResourceConfidenceInclusive(ratio) ==
    IF IsNull(ratio) THEN Null
    ELSE IF Val(ratio) >= 200 THEN Some("high")
    ELSE IF Val(ratio) >= 50 THEN Some("moderate")
    ELSE Some("low")

computeResourceConfidence(ratio) ==
    IF IsNull(ratio) THEN Null
    ELSE IF Val(ratio) > 200 THEN Some("high")
    ELSE IF Val(ratio) >= 50 THEN Some("moderate")
    ELSE Some("low")

\* ------------------------------------------------- status classifier (4.2)
InvestigateSignal(extraction) ==
    \/ extraction.investigation_priority = Some("high")
    \/ /\ ~Falsy(extraction.ind_inf_ratio)
       /\ Val(extraction.ind_inf_ratio) > 200
       /\ extraction.metallurgy_risk # Some("high")
    \/ /\ extraction.report_stage \in {Some("PEA"), Some("Preliminary Assessment")}
       /\ FalsyBool(extraction.has_economic_study)

PassSignal(extraction) ==
    \/ extraction.investigation_priority = Some("pass")
    \/ extraction.metallurgy_risk = Some("high")
    \/ extraction.permitting_risk = Some("high")

computeStatusPassFirst(extraction) ==
    IF PassSignal(extraction) THEN PASS
    ELSE IF InvestigateSignal(extraction) THEN INVESTIGATE
    ELSE WATCH

computeStatus(extraction) ==
    IF InvestigateSignal(extraction) THEN INVESTIGATE
    ELSE IF PassSignal(extraction) THEN PASS
    ELSE WATCH

\* ------------------------------------------------- response transformer (4.3)
requiredKeys == {"metadata", "project_basics", "resource_estimate", "economics",
                 "risk_assessment", "investment_analysis", "derived_metrics"}

\* the flat record before its status is computed (status: null)
flatten(response, userId, pdfFilename, pdfUrl, indInfRatio, resourceConfidence) ==
    [ user_id |-> userId,
      pdf_filename |-> pdfFilename,
      pdf_url |-> pdfUrl,
      issuer_name |-> response.metadata.issuer_name,
      project_name |-> response.metadata.project_name,
      effective_date |-> response.metadata.effective_date,
      report_stage |-> response.metadata.report_stage,
      primary_commodity |-> response.project_basics.primary_commodity,
      secondary_commodities |-> response.project_basics.secondary_commodities,
      country |-> response.project_basics.country,
      province_state |-> response.project_basics.province_state,
      total_indicated_mt |-> response.resource_estimate.total_indicated_mt,
      indicated_avg_grade |-> response.resource_estimate.indicated_avg_grade,
      total_inferred_mt |-> response.resource_estimate.total_inferred_mt,
      inferred_avg_grade |-> response.resource_estimate.inferred_avg_grade,
      total_measured_mt |-> response.resource_estimate.total_measured_mt,
      measured_avg_grade |-> response.resource_estimate.measured_avg_grade,
      cutoff_grade |-> response.resource_estimate.cutoff_grade,
      resource_date |-> response.resource_estimate.resource_date,
      has_economic_study |-> response.economics.has_economic_study,
      npv_aftertax_musd |-> response.economics.npv_aftertax_musd,
      npv_discount_rate |-> response.economics.npv_discount_rate,
      irr_aftertax_percent |-> response.economics.irr_aftertax_percent,
      capex_musd |-> response.economics.capex_musd,
      opex_per_unit |-> response.economics.opex_per_unit,
      payback_years |-> response.economics.payback_years,
      mine_life_years |-> response.economics.mine_life_years,
      commodity_price_assumption |-> response.economics.commodity_price_assumption,
      metallurgy_risk |-> response.risk_assessment.metallurgy_risk,
      metallurgy_notes |-> response.risk_assessment.metallurgy_notes,
      permitting_risk |-> response.risk_assessment.permitting_risk,
      permitting_notes |-> response.risk_assessment.permitting_notes,
      infrastructure_risk |-> response.risk_assessment.infrastructure_risk,
      geopolitical_risk |-> response.risk_assessment.geopolitical_risk,
      investigation_priority |-> response.investment_analysis.investigation_priority,
      priority_rationale |-> response.investment_analysis.priority_rationale,
      next_catalyst |-> response.investment_analysis.next_catalyst,
      catalyst_timeline |-> response.investment_analysis.catalyst_timeline,
      red_flags |-> response.investment_analysis.red_flags,
      positive_signals |-> response.investment_analysis.positive_signals,
      magellan_score |-> response.investment_analysis.magellan_score,
      ind_inf_ratio |-> indInfRatio,
      resource_confidence |-> resourceConfidence,
      notes |-> Null,
      status |-> Null ]

\* a transformer that trusts the derived_metrics section of the payload
transformTrustingDerived(response, userId, pdfFilename, pdfUrl) ==
    LET extraction == flatten(response, userId, pdfFilename, pdfUrl,
                              response.derived_metrics.indicated_inferred_ratio,
                              response.derived_metrics.resource_confidence)
    IN  [extraction EXCEPT !.status = Some(computeStatus(extraction))]

\* a transformer that swaps the two grade strings and keeps the caller's notes
transformSwappingGrades(response, userId, pdfFilename, pdfUrl) ==
    LET indInfRatio == computeIndInfRatio(response.resource_estimate.total_indicated_mt,
                                          response.resource_estimate.total_inferred_mt)
        resourceConfidence == computeResourceConfidence(indInfRatio)
        extraction == flatten(response, userId, pdfFilename, pdfUrl,
                              indInfRatio, resourceConfidence)
        swapped == [extraction EXCEPT
                       !.indicated_avg_grade = response.resource_estimate.inferred_avg_grade,
                       !.inferred_avg_grade = response.resource_estimate.indicated_avg_grade]
    IN  [swapped EXCEPT !.status = Some(computeStatus(swapped))]

transformClaudeResponseToExtraction(response, userId, pdfFilename, pdfUrl) ==
    LET indInfRatio == computeIndInfRatio(response.resource_estimate.total_indicated_mt,
                                          response.resource_estimate.total_inferred_mt)
        resourceConfidence == computeResourceConfidence(indInfRatio)
        extraction == flatten(response, userId, pdfFilename, pdfUrl,
                              indInfRatio, resourceConfidence)
    IN  [extraction EXCEPT !.status = Some(computeStatus(extraction))]

\* ------------------------------------------------- payloads of the external reply
\* a text value of the field `field`; variant 0 is null
Str(field, v) == IF v = 0 THEN Null ELSE Some(<<field, v>>)

\* a numeric value of an economic field; variant 0 is null
Num(base, v) == IF v = 0 THEN Null ELSE Some(base + v)

MkPayload(v, ind, inf, pri, met, perm, stage, econ, dmRatio, dmConf) ==
    [ metadata |->
        [ issuer_name |-> Str("issuer_name", v),
          project_name |-> Str("project_name", v),
          effective_date |-> Str("effective_date", v),
          report_stage |-> stage ],
      project_basics |->
        [ primary_commodity |-> Str("primary_commodity", v),
          secondary_commodities |-> Str("secondary_commodities", v),
          country |-> Str("country", v),
          province_state |-> Str("province_state", v) ],
      resource_estimate |->
        [ total_indicated_mt |-> ind,
          indicated_avg_grade |-> Str("indicated_avg_grade", v),
          total_inferred_mt |-> inf,
          inferred_avg_grade |-> Str("inferred_avg_grade", v),
          total_measured_mt |-> Num(10, v),
          measured_avg_grade |-> Str("measured_avg_grade", v),
          cutoff_grade |-> Str("cutoff_grade", v),
          resource_date |-> Str("resource_date", v) ],
      economics |->
        [ has_economic_study |-> econ,
          npv_aftertax_musd |-> Num(20, v),
          npv_discount_rate |-> Num(30, v),
          irr_aftertax_percent |-> Num(40, v),
          capex_musd |-> Num(50, v),
          opex_per_unit |-> Str("opex_per_unit", v),
          payback_years |-> Num(60, v),
          mine_life_years |-> Num(70, v),
          commodity_price_assumption |-> Str("commodity_price_assumption", v) ],
      risk_assessment |->
        [ metallurgy_risk |-> met,
          metallurgy_notes |-> Str("metallurgy_notes", v),
          permitting_risk |-> perm,
          permitting_notes |-> Str("permitting_notes", v),
          infrastructure_risk |-> IF v = 0 THEN Null ELSE Some("moderate"),
          geopolitical_risk |-> IF v = 0 THEN Null ELSE Some("low") ],
      investment_analysis |->
        [ investigation_priority |-> pri,
          priority_rationale |-> Str("priority_rationale", v),
          next_catalyst |-> Str("next_catalyst", v),
          catalyst_timeline |-> Str("catalyst_timeline", v),
          red_flags |-> Str("red_flags", v),
          positive_signals |-> Str("positive_signals", v),
          magellan_score |-> IF v = 0 THEN Null ELSE Some(7) ],
      derived_metrics |->
        [ indicated_inferred_ratio |-> dmRatio,
          resource_confidence |-> dmConf ] ]

Users == {"u1", "u2"}

Filenames == {"report.pdf"}

\* tonnages of the payloads handed to the transformer
TransformMts == {Null, Some(0), Some(2), Some(5)}

TransformPayloads ==
    { MkPayload(v, ind, inf, pri, met, perm, stage, econ, dmRatio, dmConf) :
        v \in {0, 1}, ind \in TransformMts, inf \in TransformMts,
        pri \in {Null, Some("high"), Some("medium"), Some("pass")},
        met \in {Some("low"), Some("high")},
        perm \in {Some("low"), Some("high")},
        stage \in {Some("PEA"), Some("Feasibility")},
        econ \in {Null, Some(TRUE)},
        dmRatio \in {Null, Some(999)},
        dmConf \in {Null, Some("high")} }

\* the six inputs of the status classifier
StatusInputs ==
    [ investigation_priority : Nullable(Priorities),
      ind_inf_ratio : {Null, Some(-100), Some(0), Some(100), Some(200), Some(201)},
      metallurgy_risk : Nullable(RiskLevels),
      report_stage : Nullable(ReportStages),
      has_economic_study : Nullable(BOOLEAN),
      permitting_risk : Nullable(RiskLevels) ]

\* ------------------------------------------------- the text sent by the fallback
\* A string is the sequence of its pieces; a piece is a run of characters
\* from .. to of one source: the text of page k of the document, the
\* truncation marker, or the separator ",".  No piece is empty.
Piece(src, from, to) == [src |-> src, from |-> from, to |-> to]

\* the text of page k, n characters long
PageText(k, n) == IF n = 0 THEN <<>> ELSE <<Piece(k, 1, n)>>

\* claude.ts:142
maxChars == 150000

\* texts are up to MaxOver characters longer or shorter than maxChars
MaxOver == 2

\* claude.ts:144: '\n\n[Document truncated due to length...]', 39 characters
truncationMarker == <<Piece("marker", 1, 39)>>

RECURSIVE strLen(_)
\* s.length
strLen(s) ==
    IF s = <<>> THEN 0
    ELSE (Head(s).to - Head(s).from + 1) + strLen(Tail(s))

RECURSIVE strSlice(_, _)
\* s.slice(0, n): the first n characters of s, all of s when it is shorter
strSlice(s, n) ==
    IF s = <<>> \/ n <= 0 THEN <<>>
    ELSE LET h == Head(s)
             len == h.to - h.from + 1
         IN  IF len >= n
             THEN <<Piece(h.src, h.from, h.from + n - 1)>>
             ELSE <<h>> \o strSlice(Tail(s), n - len)

\* What extractText of unpdf hands back (claude.ts:138).  Called without
\* options it resolves `text` to the array of the pages' strings; with
\* mergePages it is one string.  The declared type covers both.
JsString(chars) == [kind |-> "string", chars |-> chars]

JsArray(pages) == [kind |-> "array", pages |-> pages]

\* v.length: characters of a string, elements of an array
jsLength(v) == IF v.kind = "string" THEN strLen(v.chars) ELSE Len(v.pages)

\* v.slice(0, n)
jsSlice(v, n) ==
    IF v.kind = "string"
    THEN JsString(strSlice(v.chars, n))
    ELSE JsArray(SubSeq(v.pages, 1, IF Len(v.pages) < n THEN Len(v.pages) ELSE n))

RECURSIVE joinPages(_)
\* Array.prototype.toString: the elements separated by ","
joinPages(pages) ==
    IF pages = <<>> THEN <<>>
    ELSE IF Len(pages) = 1 THEN pages[1]
    ELSE pages[1] \o <<Piece(",", 1, 1)>> \o joinPages(Tail(pages))

\* String(v), as `+` and a template literal convert their operand
jsToString(v) == IF v.kind = "string" THEN v.chars ELSE joinPages(v.pages)

\* claude.ts:143-145
truncatedText(pdfText) ==
    IF jsLength(pdfText) > maxChars
    THEN JsString(jsToString(jsSlice(pdfText, maxChars)) \o truncationMarker)
    ELSE pdfText

\* claude.ts:154: the document text interpolated into the prompt
documentText(pdfText) == jsToString(truncatedText(pdfText))

\* texts around the budget: one string, or the pages of a document
PdfTexts ==
    {JsString(PageText("page1", n)) : n \in {0} \cup (maxChars - MaxOver .. maxChars + MaxOver)}
    \cup {JsArray(<<PageText("page1", n)>>) : n \in {1, maxChars + MaxOver}}
    \cup {JsArray(<<PageText("page1", maxChars \div 2), PageText("page2", n)>>) :
             n \in (maxChars \div 2 - MaxOver .. maxChars \div 2 + MaxOver)}

\* ------------------------------------------------- the functions, applied
\* SpecCalc: one application of one pure function to one input
\* ------------------------------------------------------------- CSV export
\* Text is a sequence of characters; a word that holds none of the comma, the
\* double quote and the line break stands as one character where only those
\* three matter.  A number in text is the character ToString gives for it.

MaxRecords == 2

Comma == ","

Quote == "\""

LineBreak == "\n"

\* UTF-16 code units, by which JavaScript compares strings
charCode(c) ==
    CASE c = LineBreak -> 10
      [] c = Quote -> 34
      [] c = Comma -> 44
      [] c = "A" -> 65
      [] c = "a" -> 97

toLowerCase(s) == [i \in DOMAIN s |-> IF s[i] = "A" THEN "a" ELSE s[i]]

includes(s, sub) ==
    \E k \in 0 .. (Len(s) - Len(sub)) : SubSeq(s, k + 1, k + Len(sub)) = sub

RECURSIVE join(_, _)
\* Array.prototype.join
join(cells, sep) ==
    IF cells = <<>> THEN <<>>
    ELSE IF Len(cells) = 1 THEN cells[1]
    ELSE cells[1] \o sep \o join(Tail(cells), sep)

\* text || ''
textOrEmpty(v) == IF IsNull(v) THEN <<>> ELSE Val(v)

numberToString(n) == <<ToString(n)>>

\* String(number || '')
numberOrEmpty(v) == IF Falsy(v) THEN <<>> ELSE numberToString(Val(v))

\* number?.toString() || ''
optionalToString(v) == IF IsNull(v) THEN <<>> ELSE numberToString(Val(v))

\* format(new Date(created_at), 'yyyy-MM-dd')
formatDate(v) == IF IsNull(v) THEN <<>> ELSE <<"yyyy-MM-dd", ToString(Val(v))>>

\* new Date(created_at).toLocaleDateString()
toLocaleDateString(v) == IF IsNull(v) THEN <<>> ELSE <<"localeDate", ToString(Val(v))>>

\* ExtractionsTable.exportToCsv
tableHeaders ==
    << <<"Date">>, <<"Project">>, <<"Issuer">>, <<"Commodity">>, <<"Country">>,
       <<"Stage">>, <<"Ind/Inf Ratio">>, <<"Priority">>, <<"Status">>,
       <<"Magellan Score">> >>

tableRow(e) ==
    << formatDate(e.created_at),
       textOrEmpty(e.project_name),
       textOrEmpty(e.issuer_name),
       textOrEmpty(e.primary_commodity),
       textOrEmpty(e.country),
       textOrEmpty(e.report_stage),
       optionalToString(e.ind_inf_ratio),
       textOrEmpty(e.investigation_priority),
       textOrEmpty(e.status),
       optionalToString(e.magellan_score) >>

\* [headers, ...rows].map(row => row.join(',')).join('\n')
exportToCsv(records) ==
    join([i \in 1 .. (Len(records) + 1) |->
            join(IF i = 1 THEN tableHeaders ELSE tableRow(records[i - 1]), <<Comma>>)],
         <<LineBreak>>)

\* Dashboard.exportToCSV
csvHeaders ==
    << <<"Date Added">>, <<"Issuer">>, <<"Project">>, <<"Primary Commodity">>,
       <<"Country">>, <<"Province">>, <<"Stage">>, <<"Indicated Mt">>,
       <<"Indicated Grade">>, <<"Inferred Mt">>, <<"Inferred Grade">>,
       <<"Ind/Inf Ratio">>, <<"Has Economics">>, <<"NPV (M USD)">>, <<"IRR %">>,
       <<"Met Risk">>, <<"Permit Risk">>, <<"Priority">>, <<"Next Catalyst">>,
       <<"Red Flags">>, <<"Status">>, <<"PDF Link">> >>

csvRow(e) ==
    << toLocaleDateString(e.created_at),
       textOrEmpty(e.issuer_name),
       textOrEmpty(e.project_name),
       textOrEmpty(e.primary_commodity),
       textOrEmpty(e.country),
       textOrEmpty(e.province_state),
       textOrEmpty(e.report_stage),
       numberOrEmpty(e.total_indicated_mt),
       numberOrEmpty(e.indicated_avg_grade),
       numberOrEmpty(e.total_inferred_mt),
       numberOrEmpty(e.inferred_avg_grade),
       numberOrEmpty(e.ind_inf_ratio),
       IF e.has_economic_study = Some(TRUE) THEN <<"Yes">> ELSE <<"No">>,
       numberOrEmpty(e.npv_aftertax_musd),
       numberOrEmpty(e.irr_aftertax_percent),
       textOrEmpty(e.metallurgy_risk),
       textOrEmpty(e.permitting_risk),
       textOrEmpty(e.investigation_priority),
       textOrEmpty(e.next_catalyst),
       join(IF IsNull(e.red_flags) THEN <<>> ELSE Val(e.red_flags), <<";", " ">>),
       textOrEmpty(e.status),
       textOrEmpty(e.pdf_url) >>

RECURSIVE doubleQuotes(_)
\* cell.replace(/"/g, '""')
doubleQuotes(cell) ==
    IF cell = <<>> THEN <<>>
    ELSE (IF Head(cell) = Quote THEN <<Quote, Quote>> ELSE <<Head(cell)>>)
         \o doubleQuotes(Tail(cell))

quoted(cell) == <<Quote>> \o doubleQuotes(cell) \o <<Quote>>

exportToCSV(extractions) ==
    join([i \in 1 .. (Len(extractions) + 1) |->
            IF i = 1 THEN join(csvHeaders, <<Comma>>)
            ELSE LET row == csvRow(extractions[i - 1])
                 IN  join([k \in DOMAIN row |-> quoted(row[k])], <<Comma>>)],
         <<LineBreak>>)

\* ExtractionsTable: the search box
matchesSearch(e, search) ==
    search = <<>> \/
    \E f \in {"project_name", "issuer_name", "country", "primary_commodity"} :
        ~IsNull(e[f]) /\ includes(toLowerCase(Val(e[f])), toLowerCase(search))

\* one filter: not set, or 'all', or equal to the record's value
matchesFilter(e, field, filter) ==
    \/ IsNull(filter) \/ Val(filter) = <<>> \/ Val(filter) = <<"all">>
    \/ e[field] = filter

matchesFilters(e, filters) ==
    /\ matchesFilter(e, "status", filters.status)
    /\ matchesFilter(e, "investigation_priority", filters.priority)
    /\ matchesFilter(e, "primary_commodity", filters.commodity)
    /\ matchesFilter(e, "country", filters.country)
    /\ matchesFilter(e, "report_stage", filters.stage)

\* the value the comparator compares: a number, or the code units of the
\* lower-cased text
sortKey(e, field) ==
    IF IsNull(e[field]) THEN Null
    ELSE IF field \in {"created_at", "ind_inf_ratio", "magellan_score"}
         THEN Some(<<Val(e[field])>>)
         ELSE Some([i \in DOMAIN Val(e[field]) |->
                       charCode(toLowerCase(Val(e[field]))[i])])

RECURSIVE lessThan(_, _)
\* JavaScript < on two numbers or two strings
lessThan(a, b) ==
    IF b = <<>> THEN FALSE
    ELSE IF a = <<>> THEN TRUE
    ELSE IF Head(a) # Head(b) THEN Head(a) < Head(b)
    ELSE lessThan(Tail(a), Tail(b))

\* the comparator handed to result.sort
compare(a, b, sort) ==
    LET aVal == sortKey(a, sort.field)
        bVal == sortKey(b, sort.field)
    IN  IF IsNull(aVal) THEN 1
        ELSE IF IsNull(bVal) THEN -1
        ELSE IF lessThan(Val(aVal), Val(bVal))
             THEN (IF sort.direction = "asc" THEN -1 ELSE 1)
        ELSE IF lessThan(Val(bVal), Val(aVal))
             THEN (IF sort.direction = "asc" THEN 1 ELSE -1)
        ELSE 0

\* Array.prototype.sort is stable; for two records whose sort value is null
\* the comparator answers 1 both ways, and the order of such a pair is left
\* to the engine.
sorted(xs, sort) ==
    LET n == Len(xs)
        perms == {p \in [1 .. n -> 1 .. n] : \A i, j \in 1 .. n : p[i] = p[j] => i = j}
        ok(p) == \A i, j \in 1 .. n :
                    i < j =>
                       LET c == compare(xs[p[i]], xs[p[j]], sort)
                       IN  \/ c < 0
                           \/ c = 0 /\ p[i] < p[j]
                           \/ /\ IsNull(sortKey(xs[p[i]], sort.field))
                              /\ IsNull(sortKey(xs[p[j]], sort.field))
    IN  {[i \in 1 .. n |-> xs[p[i]]] : p \in {q \in perms : ok(q)}}

\* ExtractionsTable.filteredExtractions: the results the engine may give
filteredExtractions(extractions, search, filters, sort) ==
    sorted(SelectSeq(extractions,
                     LAMBDA e : matchesSearch(e, search) /\ matchesFilters(e, filters)),
           sort)

\* The records of a Dashboard list: all columns null except the ones varied.
ExportRecord(id, name, status, ratio) ==
    [id |-> id, created_at |-> Some(id), project_name |-> name,
     issuer_name |-> Null, primary_commodity |-> Null, country |-> Null,
     province_state |-> Null, report_stage |-> Null,
     total_indicated_mt |-> Null, indicated_avg_grade |-> Null,
     total_inferred_mt |-> Null, inferred_avg_grade |-> Null,
     ind_inf_ratio |-> ratio, has_economic_study |-> Null,
     npv_aftertax_musd |-> Null, irr_aftertax_percent |-> Null,
     metallurgy_risk |-> Null, permitting_risk |-> Null,
     investigation_priority |-> Null, next_catalyst |-> Null,
     red_flags |-> Null, status |-> status, pdf_url |-> Null,
     magellan_score |-> Null]

ExportNames == {Null, Some(<<"a">>), Some(<<"A", Comma>>), Some(<<Quote, LineBreak>>)}

\* the Dashboard's list is newest first
ExportLists ==
    UNION {{[i \in 1 .. n |-> ExportRecord(n + 1 - i, c[i][1], c[i][2], c[i][3])] :
              c \in [1 .. n -> ExportNames
                                \X {Some(<<"WATCH">>), Some(<<"PASS">>)}
                                \X {Null, Some(150)}]} :
           n \in 0 .. MaxRecords}

ExportFilters ==
    [status : {Null, Some(<<"WATCH">>)}, priority : {Some(<<"all">>)},
     commodity : {Null}, country : {Null}, stage : {Null}]

ExportSorts ==
    {[field |-> "created_at", direction |-> "desc"],
     [field |-> "project_name", direction |-> "asc"],
     [field |-> "ind_inf_ratio", direction |-> "asc"],
     [field |-> "ind_inf_ratio", direction |-> "desc"]}

\* ----------------------------------------------------- ratio rendering
\* StatusBadge.tsx RatioDisplay: the dash for null, else colour and label.
RatioDisplay(ratio) ==
    IF IsNull(ratio) THEN Null
    ELSE IF Val(ratio) > 200 THEN Some([color |-> "green", label |-> "High confidence"])
    ELSE IF Val(ratio) >= 50 THEN Some([color |-> "yellow", label |-> "Moderate"])
    ELSE Some([color |-> "red", label |-> "Low confidence"])

\* The ratio cell of a results-table row: the dash when the ratio is falsy,
\* else its colour.
ratioCell(ratio) ==
    IF Falsy(ratio) THEN Null
    ELSE IF Val(ratio) > 200 THEN Some("green")
    ELSE IF Val(ratio) >= 50 /\ Val(ratio) <= 200 THEN Some("yellow")
    ELSE Some("red")

CalcCalls ==
    [fn : {"computeIndInfRatio"},
     indicated : Nullable(-MaxMt .. MaxMt), inferred : Nullable(-MaxMt .. MaxMt)]
    \cup [fn : {"computeResourceConfidence"}, ratio : Nullable(-MaxRatio .. MaxRatio)]
    \cup [fn : {"computeStatus"}, extraction : StatusInputs]
    \cup [fn : {"transformClaudeResponseToExtraction"}, response : TransformPayloads,
          userId : Users, pdfFilename : Filenames, pdfUrl : {<<"pdf_url", 1>>}]
    \cup [fn : {"truncatedText"}, pdfText : PdfTexts]
    \cup [fn : {"renderRatio"}, ratio : Nullable(-MaxRatio .. MaxRatio)]
    \cup [fn : {"export"}, extractions : ExportLists, search : {<<>>, <<"a">>},
          filters : ExportFilters, sort : ExportSorts]

\* the request and the table at rest
Idle ==
    /\ pc = "idle"
    /\ req = Null
    /\ native = Null
    /\ text = Null
    /\ extracted = Null
    /\ transformed = Null
    /\ err = Null
    /\ httpResponse = Null
    /\ trace = <<>>
    /\ progress = "idle"
    /\ runs = <<>>
    /\ timers = 0
    /\ view = <<>>

InitCalc ==
    /\ call \in CalcCalls
    /\ ret = Null
    /\ done = FALSE
    /\ table = {}
    /\ nextId = 1
    /\ updates = 0
    /\ files = {}
    /\ last = Null
    /\ Idle

CallComputeIndInfRatio ==
    /\ ~done
    /\ call.fn = "computeIndInfRatio"
    /\ ret' = computeIndInfRatio(call.indicated, call.inferred)
    /\ done' = TRUE
    /\ UNCHANGED <<call, dbVars, reqVars, uiVars>>

CallComputeResourceConfidence ==
    /\ ~done
    /\ call.fn = "computeResourceConfidence"
    /\ ret' = computeResourceConfidence(call.ratio)
    /\ done' = TRUE
    /\ UNCHANGED <<call, dbVars, reqVars, uiVars>>

CallComputeStatus ==
    /\ ~done
    /\ call.fn = "computeStatus"
    /\ ret' = computeStatus(call.extraction)
    /\ done' = TRUE
    /\ UNCHANGED <<call, dbVars, reqVars, uiVars>>

CallTransform ==
    /\ ~done
    /\ call.fn = "transformClaudeResponseToExtraction"
    /\ ret' = transformClaudeResponseToExtraction(call.response, call.userId,
                                                  call.pdfFilename, call.pdfUrl)
    /\ done' = TRUE
    /\ UNCHANGED <<call, dbVars, reqVars, uiVars>>

CallTruncatedText ==
    /\ ~done
    /\ call.fn = "truncatedText"
    /\ ret' = documentText(call.pdfText)
    /\ done' = TRUE
    /\ UNCHANGED <<call, dbVars, reqVars, uiVars>>

\* one record rendered in the detail panel and in its table row
CallRenderRatio ==
    /\ ~done
    /\ call.fn = "renderRatio"
    /\ ret' = [display |-> RatioDisplay(call.ratio), cell |-> ratioCell(call.ratio)]
    /\ done' = TRUE
    /\ UNCHANGED <<call, dbVars, reqVars, uiVars>>

\* both Export CSV buttons pressed on one page: the one of the results table
\* and the one of the Dashboard header, which is shown when the list is not
\* empty
CallExport ==
    /\ ~done
    /\ call.fn = "export"
    /\ \E records \in filteredExtractions(call.extractions, call.search,
                                          call.filters, call.sort) :
          ret' = [table |-> [records |-> records, headers |-> tableHeaders,
                             csv |-> exportToCsv(records)],
                  dashboard |->
                      IF call.extractions = <<>> THEN Null
                      ELSE [records |-> call.extractions, headers |-> csvHeaders,
                            csv |-> exportToCSV(call.extractions)]]
    /\ done' = TRUE
    /\ UNCHANGED <<call, dbVars, reqVars, uiVars>>

NextCalc ==
    \/ CallComputeIndInfRatio
    \/ CallComputeResourceConfidence
    \/ CallComputeStatus
    \/ CallTransform
    \/ CallTruncatedText
    \/ CallRenderRatio
    \/ CallExport

SpecCalc == InitCalc /\ [][NextCalc]_vars

Returned(f) == done /\ call.fn = f

\* ------------------------------------------------- the external reply (claude.ts)
\* a parsed JSON value: an object with members, or null, or a scalar
JObject(m) == [type |-> "object", members |-> m]

JNull == [type |-> "null"]

JScalar == [type |-> "scalar"]

\* the outcome of a call: a returned value or a thrown error
Return(v) == [ok |-> TRUE, value |-> v]

Throw(e) == [ok |-> FALSE, error |-> e]

\* An error is its cause and its message; the message is the set of the
\* substrings the code searches for that occur in it.
Error(kind, msg) == [kind |-> kind, msg |-> msg]

validateSixKeys(data) ==
    /\ data.type = "object"
    /\ \A key \in requiredKeys \ {"derived_metrics"} : key \in DOMAIN data.members

validateExtractionResponse(data) ==
    /\ data.type = "object"
    /\ \A key \in requiredKeys : key \in DOMAIN data.members

\* The reply of the external API: no text block, text that is not JSON (the
\* SyntaxError of JSON.parse may quote the text, `quoted` holds the searched
\* substrings it then contains), or JSON text.
parseClaudeResponse(reply) ==
    IF reply.kind = "notext" THEN Throw(Error("no_text", {}))
    ELSE IF reply.kind = "malformed" THEN Throw(Error("syntax", reply.quoted))
    ELSE Return(reply.value)

SizeLimitPatternPagesOnly(msg) == "100 PDF pages" \in msg

\* claude.ts:125
SizeLimitPattern(msg) == "100 PDF pages" \in msg \/ "maximum" \in msg

PayloadHigh ==
    MkPayload(1, Some(5), Some(2), Some("medium"), Some("low"), Some("low"),
              Some("Feasibility"), Some(TRUE), Some(999), Some("low"))

PayloadZero ==
    MkPayload(1, Some(0), Some(2), Some("pass"), Some("low"), Some("low"),
              Some("PFS"), Some(TRUE), Some(0), Some("low"))

PayloadSparse ==
    MkPayload(0, Some(2), Some(2), Null, Null, Null, Null, Null, Null, Null)

Without(m, key) == [k \in DOMAIN m \ {key} |-> m[k]]

Replies ==
    {[kind |-> "json", value |-> JObject(m)] : m \in {PayloadHigh, PayloadZero, PayloadSparse}}
    \cup {[kind |-> "json", value |-> JObject(Without(PayloadHigh, key))] : key \in requiredKeys}
    \cup {[kind |-> "json", value |-> JObject([PayloadHigh EXCEPT !.resource_estimate = Null])],
          [kind |-> "json", value |-> JScalar],
          [kind |-> "json", value |-> JNull],
          [kind |-> "notext"],
          [kind |-> "malformed", quoted |-> {}],
          [kind |-> "malformed", quoted |-> {"maximum"}]}

\* what anthropic.messages.create rejects with
ApiErrors ==
    { Error("size_limit", {"100 PDF pages", "maximum"}),
      Error("size_limit", {"too large", "413"}),
      Error("rate_limit", {"rate_limit", "429"}),
      Error("rate_limit", {"rate_limit", "429", "maximum"}),
      Error("overloaded", {"overloaded"}),
      Error("authentication", {"authentication", "401"}),
      Error("timeout", {"timeout"}),
      Error("other", {}) }

\* the outcome of one messages.create followed by parseClaudeResponse
ApiOutcomes == {Throw(e) : e \in ApiErrors} \cup {parseClaudeResponse(r) : r \in Replies}

\* ------------------------------------------------- POST /api/extract (route.ts)
Json(status, body) == [status |-> status, body |-> body]

\* route.ts:109-132
errorStatus(msg) ==
    IF "rate_limit" \in msg \/ "429" \in msg THEN 429
    ELSE IF "authentication" \in msg \/ "401" \in msg THEN 401
    ELSE IF "overloaded" \in msg \/ "503" \in msg THEN 503
    ELSE IF "too large" \in msg \/ "413" \in msg \/ "entity" \in msg THEN 413
    ELSE IF "could not extract" \in msg \/ "corrupted" \in msg THEN 422
    ELSE IF "timeout" \in msg \/ "TIMEOUT" \in msg THEN 504
    ELSE 500

\* a storage path is <<folder, file>>, read "folder/file"
Paths == {<<"u1", "a.pdf">>, <<"u2", "b.pdf">>}

\* a path under which the bucket holds no file
MissingPath == <<"u1", "gone.pdf">>

\* the body is JSON or not; a caller is present or not
Requests ==
    [ caller : Nullable(Users),
      bodyValid : {TRUE},
      storagePath : Nullable(Paths),
      originalFilename : Nullable(Filenames) ]
    \cup
    [ caller : {Some("u1")}, bodyValid : {TRUE},
      storagePath : {Some(MissingPath)}, originalFilename : {Null} ]
    \cup
    [ caller : {Some("u1"), Null}, bodyValid : {FALSE},
      storagePath : {Null}, originalFilename : {Null} ]

UnauthenticatedNever(caller) == FALSE

\* route.ts:14: authError || !user
Unauthenticated(caller) == IsNull(caller)

OwnsAnyPath(storagePath, caller) == TRUE

\* route.ts:36: storagePath.startsWith(`${user.id}/`)
OwnsPath(storagePath, caller) == caller = Some(storagePath[1])

FileAssumedStored(storagePath) == TRUE

\* route.ts:44-48: the download yields the file
FileStored(storagePath) == storagePath \in files

\* route.ts:67
fileNameOf(originalFilename, storagePath) ==
    IF ~IsNull(originalFilename) THEN Val(originalFilename)
    ELSE IF storagePath[2] # "" THEN storagePath[2]
    ELSE "document.pdf"

getPublicUrl(storagePath) == <<"publicUrl", storagePath>>

\* the sections the transformer dereferences
TransformThrows(m) ==
    \E key \in requiredKeys \ {"derived_metrics"} : m[key] = Null

RlsDisabled(uid, row) == TRUE

\* schema.sql:91-101
RlsOwner(uid, row) == row.user_id = uid

Step(name) == trace' = Append(trace, name)

Respond(status, body) ==
    /\ httpResponse' = Json(status, body)
    /\ pc' = "done"

InitPipe ==
    /\ call = Null
    /\ ret = Null
    /\ done = FALSE
    /\ table = {}
    /\ nextId = 1
    /\ updates = 0
    /\ files = Paths
    /\ last = Null
    /\ Idle

StartRequest ==
    /\ pc = "idle"
    /\ nextId <= MaxRows
    /\ \E r \in Requests : req' = r
    /\ pc' = "auth"
    /\ UNCHANGED <<native, text, extracted, transformed, err, httpResponse, trace>>
    /\ UNCHANGED <<calcVars, dbVars, uiVars>>

\* route.ts:11-19
GetUser ==
    /\ pc = "auth"
    /\ Step("auth")
    /\ IF Unauthenticated(req.caller)
       THEN Respond(401, "Unauthorized")
       ELSE pc' = "body" /\ UNCHANGED httpResponse
    /\ UNCHANGED <<req, native, text, extracted, transformed, err>>
    /\ UNCHANGED <<calcVars, dbVars, uiVars>>

\* route.ts:22-41
ParseBody ==
    /\ pc = "body"
    /\ Step("body")
    /\ IF ~req.bodyValid
       THEN /\ err' = Error("body", {})
            /\ pc' = "catch"
            /\ UNCHANGED httpResponse
       ELSE /\ IF IsNull(req.storagePath)
               THEN Respond(400, "No storage path provided")
               ELSE IF ~OwnsPath(Val(req.storagePath), req.caller)
               THEN Respond(403, "Unauthorized access to file")
               ELSE pc' = "download" /\ UNCHANGED httpResponse
            /\ UNCHANGED err
    /\ UNCHANGED <<req, native, text, extracted, transformed>>
    /\ UNCHANGED <<calcVars, dbVars, uiVars>>

\* route.ts:44-54
Download ==
    /\ pc = "download"
    /\ Step("download")
    /\ \/ /\ FileStored(Val(req.storagePath))
          /\ pc' = "native"
          /\ UNCHANGED httpResponse
       \/ Respond(500, "Failed to download file from storage")
    /\ UNCHANGED <<req, native, text, extracted, transformed, err>>
    /\ UNCHANGED <<calcVars, dbVars, uiVars>>

\* claude.ts:96-119: the native-document request is sent
NativeCall ==
    /\ pc = "native"
    /\ Step("nativeApi")
    /\ pc' = "nativeWait"
    /\ UNCHANGED <<req, native, text, extracted, transformed, err, httpResponse>>
    /\ UNCHANGED <<calcVars, dbVars, uiVars>>

\* claude.ts:121-131: the reply is parsed, or the failure is caught
NativeReturn ==
    /\ pc = "nativeWait"
    /\ \E outcome \in ApiOutcomes :
          /\ native' = outcome
          /\ IF outcome.ok
             THEN /\ extracted' = outcome.value
                  /\ pc' = "validate"
                  /\ UNCHANGED err
             ELSE IF SizeLimitPattern(outcome.error.msg)
             THEN /\ pc' = "text"
                  /\ UNCHANGED <<extracted, err>>
             ELSE /\ err' = outcome.error
                  /\ pc' = "catch"
                  /\ UNCHANGED extracted
    /\ UNCHANGED <<req, text, transformed, httpResponse, trace>>
    /\ UNCHANGED <<calcVars, dbVars, uiVars>>

\* claude.ts:135-157: extractFromPdfText extracts the text and sends it
TextCall ==
    /\ pc = "text"
    /\ \/ /\ Step("text")
          /\ text' = Throw(Error("extract_text", {}))
          /\ err' = Error("extract_text", {})
          /\ pc' = "catch"
       \/ /\ trace' = trace \o <<"text", "textApi">>
          /\ pc' = "textWait"
          /\ UNCHANGED <<text, err>>
    /\ UNCHANGED <<req, native, extracted, transformed, httpResponse>>
    /\ UNCHANGED <<calcVars, dbVars, uiVars>>

\* claude.ts:159: the reply is parsed; nothing is caught
TextReturn ==
    /\ pc = "textWait"
    /\ \E outcome \in ApiOutcomes :
          /\ text' = outcome
          /\ IF outcome.ok
             THEN /\ extracted' = outcome.value
                  /\ pc' = "validate"
                  /\ UNCHANGED err
             ELSE /\ err' = outcome.error
                  /\ pc' = "catch"
                  /\ UNCHANGED extracted
    /\ UNCHANGED <<req, native, transformed, httpResponse, trace>>
    /\ UNCHANGED <<calcVars, dbVars, uiVars>>

\* route.ts:73-78
Validate ==
    /\ pc = "validate"
    /\ Step("validate")
    /\ IF validateExtractionResponse(extracted)
       THEN pc' = "transform" /\ UNCHANGED httpResponse
       ELSE Respond(500, "Invalid extraction response from AI")
    /\ UNCHANGED <<req, native, text, extracted, transformed, err>>
    /\ UNCHANGED <<calcVars, dbVars, uiVars>>

\* route.ts:81-86
Transform ==
    /\ pc = "transform"
    /\ Step("transform")
    /\ IF TransformThrows(extracted.members)
       THEN /\ err' = Error("type_error", {})
            /\ pc' = "catch"
            /\ UNCHANGED transformed
       ELSE /\ transformed' = transformClaudeResponseToExtraction(
                                 extracted.members, Val(req.caller),
                                 fileNameOf(req.originalFilename, Val(req.storagePath)),
                                 getPublicUrl(Val(req.storagePath)))
            /\ pc' = "insert"
            /\ UNCHANGED err
    /\ UNCHANGED <<req, native, text, extracted, httpResponse>>
    /\ UNCHANGED <<calcVars, dbVars, uiVars>>

\* schema.sql:10,75: the row an insert stores; id and created_at are the
\* table's defaults
Stored(extraction, id) ==
    [f \in DOMAIN extraction \cup {"id", "created_at"} |->
        IF f \in {"id", "created_at"} THEN id ELSE extraction[f]]

\* route.ts:89-103
Insert ==
    /\ pc = "insert"
    /\ Step("insert")
    /\ \/ /\ RlsOwner(Val(req.caller), transformed)
          /\ LET row == Stored(transformed, nextId)
             IN  /\ table' = table \cup {row}
                 /\ Respond(200, row)
          /\ nextId' = nextId + 1
       \/ /\ Respond(500, "Failed to save extraction")
          /\ UNCHANGED <<table, nextId>>
    /\ UNCHANGED <<req, native, text, extracted, transformed, err, updates, files, last>>
    /\ UNCHANGED <<calcVars, uiVars>>

\* route.ts:105-138
Catch ==
    /\ pc = "catch"
    /\ Step("catch")
    /\ Respond(errorStatus(err.msg), <<"error", err.kind>>)
    /\ UNCHANGED <<req, native, text, extracted, transformed, err>>
    /\ UNCHANGED <<calcVars, dbVars, uiVars>>

\* the response has been sent; the next request may start
Finish ==
    /\ pc = "done"
    /\ pc' = "idle"
    /\ req' = Null
    /\ native' = Null
    /\ text' = Null
    /\ extracted' = Null
    /\ transformed' = Null
    /\ err' = Null
    /\ httpResponse' = Null
    /\ trace' = <<>>
    /\ UNCHANGED <<calcVars, dbVars, uiVars>>

\* ------------------------------------------------- the persistence gateway
\* Each helper runs as its caller: the policies of schema.sql:91-101 decide
\* the rows a statement sees.  A returned row is recorded by its key.
Key(row) == <<row.id, row.user_id>>

RECURSIVE newestFirst(_)
\* .order('created_at', { ascending: false })
newestFirst(rows) ==
    IF rows = {} THEN <<>>
    ELSE LET r == CHOOSE r \in rows : \A q \in rows : q.created_at <= r.created_at
         IN  <<Key(r)>> \o newestFirst(rows \ {r})

\* dbError is what the statement reported (null: no error), result what the
\* helper handed to its caller
Called(op, uid, id, dbError, result) ==
    last' = [op |-> op, uid |-> uid, id |-> id, dbError |-> dbError, result |-> result]

\* the records handed to insertExtraction: transformed payloads
InsertInputs ==
    {transformClaudeResponseToExtraction(m, uid, "report.pdf", getPublicUrl(<<uid, "a.pdf">>)) :
        m \in {PayloadHigh, PayloadSparse}, uid \in Users}

\* layout.tsx:178-192 under the INSERT policy (WITH CHECK on the new row)
insertExtraction ==
    /\ nextId <= MaxRows
    /\ \E uid \in Users, extraction \in InsertInputs :
          \/ /\ RlsOwner(uid, extraction)
             /\ table' = table \cup {Stored(extraction, nextId)}
             /\ nextId' = nextId + 1
             /\ Called("insertExtraction", uid, 0, Null,
                       Return(Key(Stored(extraction, nextId))))
          \/ /\ ~RlsOwner(uid, extraction)
             /\ Called("insertExtraction", uid, 0, Some("row_security"),
                       Throw(Error("row_security", {})))
             /\ UNCHANGED <<table, nextId>>
          \/ /\ Called("insertExtraction", uid, 0, Some("database"),
                       Throw(Error("database", {})))
             /\ UNCHANGED <<table, nextId>>
    /\ UNCHANGED <<updates, files>>
    /\ UNCHANGED <<calcVars, reqVars, uiVars>>

\* layout.tsx:145-158 under the SELECT policy; an error is logged and an
\* empty list returned
getExtractions ==
    /\ \E uid \in Users :
          \/ Called("getExtractions", uid, 0, Null,
                    Return(newestFirst({r \in table : RlsOwner(uid, r)})))
          \/ Called("getExtractions", uid, 0, Some("database"), Return(<<>>))
    /\ UNCHANGED <<table, nextId, updates, files>>
    /\ UNCHANGED <<calcVars, reqVars, uiVars>>

\* layout.tsx:161-175 under the SELECT policy; .single() reports an error
\* when no row comes back, the error is logged and null returned
getExtraction ==
    /\ \E uid \in Users, id \in 1 .. MaxRows :
          LET match == {r \in table : r.id = id /\ RlsOwner(uid, r)}
          IN  \/ /\ match # {}
                 /\ \E r \in match :
                       Called("getExtraction", uid, id, Null, Return(Some(Key(r))))
              \/ /\ match = {}
                 /\ Called("getExtraction", uid, id, Some("no_rows"), Return(Null))
              \/ Called("getExtraction", uid, id, Some("database"), Return(Null))
    /\ UNCHANGED <<table, nextId, updates, files>>
    /\ UNCHANGED <<calcVars, reqVars, uiVars>>

UpdatePatches ==
    { [notes |-> Some(<<"notes", 1>>)],
      [total_inferred_mt |-> Some(0)],
      [status |-> Some(PASS)],
      [user_id |-> "u2"] }

Patched(row, patch) ==
    [f \in DOMAIN row |-> IF f \in DOMAIN patch THEN patch[f] ELSE row[f]]

\* layout.tsx:195-210 under the UPDATE policy: USING selects the rows, and
\* with no WITH CHECK clause it is applied to the new row as well.  No row
\* back makes .single() report an error; every error is thrown.
updateExtraction ==
    /\ updates < MaxUpdates
    /\ \E uid \in Users, id \in 1 .. MaxRows, patch \in UpdatePatches :
          LET match == {r \in table : r.id = id /\ RlsOwner(uid, r)}
          IN  \/ /\ match = {}
                 /\ Called("updateExtraction", uid, id, Some("no_rows"),
                           Throw(Error("no_rows", {})))
                 /\ UNCHANGED <<table, updates>>
              \/ /\ match # {}
                 /\ ~(\A r \in match : RlsOwner(uid, Patched(r, patch)))
                 /\ Called("updateExtraction", uid, id, Some("row_security"),
                           Throw(Error("row_security", {})))
                 /\ UNCHANGED <<table, updates>>
              \/ /\ match # {}
                 /\ \A r \in match : RlsOwner(uid, Patched(r, patch))
                 /\ table' = (table \ match) \cup {Patched(r, patch) : r \in match}
                 /\ updates' = updates + 1
                 /\ \E r \in match :
                       Called("updateExtraction", uid, id, Null,
                              Return(Key(Patched(r, patch))))
              \/ /\ Called("updateExtraction", uid, id, Some("database"),
                           Throw(Error("database", {})))
                 /\ UNCHANGED <<table, updates>>
    /\ UNCHANGED <<nextId, files>>
    /\ UNCHANGED <<calcVars, reqVars, uiVars>>

\* layout.tsx:213-226 under the DELETE policy: deleting no row is no error
deleteExtraction ==
    /\ \E uid \in Users, id \in 1 .. MaxRows :
          \/ /\ table' = {r \in table : ~(r.id = id /\ RlsOwner(uid, r))}
             /\ Called("deleteExtraction", uid, id, Null, Return(TRUE))
          \/ /\ Called("deleteExtraction", uid, id, Some("database"),
                       Throw(Error("database", {})))
             /\ UNCHANGED table
    /\ UNCHANGED <<nextId, updates, files>>
    /\ UNCHANGED <<calcVars, reqVars, uiVars>>

Next ==
    \/ StartRequest
    \/ GetUser
    \/ ParseBody
    \/ Download
    \/ NativeCall
    \/ NativeReturn
    \/ TextCall
    \/ TextReturn
    \/ Validate
    \/ Transform
    \/ Insert
    \/ Catch
    \/ Finish

Spec == InitPipe /\ [][Next]_vars

\* the calls of the persistence gateway, by several users in any order
NextDb ==
    \/ insertExtraction
    \/ getExtractions
    \/ getExtraction
    \/ updateExtraction
    \/ deleteExtraction

SpecDb == InitPipe /\ [][NextDb]_vars

\* ------------------------------------------------- claims on the pure functions
\* ---------------------------------------------------------------------------
\* UploadZone (the upload component).  One progress state is shared by all
\* processFile runs of the component; a run is a record of the file it was
\* given, the await it is suspended at, and the log of what it has done so far
\* (progress states it set, calls it made, callbacks it invoked, timers it
\* scheduled).  The code between two awaits runs without interruption and is
\* one action.

MaxRuns == 2

MAX_FILE_SIZE == 50 * 1024 * 1024

\* A file as the browser hands it over: its name, whether its content is a
\* PDF document, and its size in bytes.
UploadFiles ==
    [name : {"report.pdf", "notes.txt"},
     isPdf : BOOLEAN,
     size : {MAX_FILE_SIZE, MAX_FILE_SIZE + 1}]

\* file.name.toLowerCase().endsWith('.pdf')
endsWithPdf(name) == name = "report.pdf"

isProcessing == progress \notin {"idle", "complete", "error"}

Logged(i, events) ==
    [runs EXCEPT ![i].log = runs[i].log \o events]

\* The catch block of processFile: error state, error callback, reset in 5 s.
CatchUpload(i) ==
    /\ runs' = [Logged(i, <<"error", "onUploadError", "setTimeout">>)
                    EXCEPT ![i].pc = "ended"]
    /\ progress' = "error"
    /\ timers' = timers + 1

\* handleDrop / handleFileSelect hand the first file to processFile, which
\* validates it and, if it passes, starts the authentication lookup.
processFile(file) ==
    /\ ~isProcessing
    /\ Len(runs) < MaxRuns
    /\ IF ~endsWithPdf(file.name) \/ file.size > MAX_FILE_SIZE
       THEN /\ runs' = Append(runs, [file |-> file, pc |-> "ended",
                          log |-> <<"validating", "error", "onUploadError">>])
            /\ progress' = "error"
       ELSE /\ runs' = Append(runs, [file |-> file, pc |-> "auth",
                          log |-> <<"validating", "getUser">>])
            /\ progress' = "validating"
    /\ UNCHANGED <<timers, view>>
    /\ UNCHANGED <<calcVars, dbVars, reqVars>>

\* supabase.auth.getUser() settles.
AuthSettles(i, ok) ==
    /\ i \in DOMAIN runs /\ runs[i].pc = "auth"
    /\ IF ok
       THEN /\ runs' = [Logged(i, <<"uploading", "storage.upload">>)
                            EXCEPT ![i].pc = "upload"]
            /\ progress' = "uploading"
            /\ UNCHANGED timers
       ELSE CatchUpload(i)
    /\ UNCHANGED view
    /\ UNCHANGED <<calcVars, dbVars, reqVars>>

\* supabase.storage.from('ni43101-pdfs').upload(...) settles.
UploadSettles(i, ok) ==
    /\ i \in DOMAIN runs /\ runs[i].pc = "upload"
    /\ IF ok
       THEN /\ runs' = [Logged(i, <<"processing", "fetch">>)
                            EXCEPT ![i].pc = "fetch"]
            /\ progress' = "processing"
            /\ UNCHANGED timers
       ELSE CatchUpload(i)
    /\ UNCHANGED view
    /\ UNCHANGED <<calcVars, dbVars, reqVars>>

\* fetch('/api/extract') settles: with an ok response, with a response whose
\* status is not ok, or by rejecting.
FetchSettles(i, outcome) ==
    /\ i \in DOMAIN runs /\ runs[i].pc = "fetch"
    /\ CASE outcome = "ok" ->
                /\ runs' = [Logged(i, <<"extracting", "saving">>)
                                EXCEPT ![i].pc = "json"]
                /\ progress' = "saving"
                /\ UNCHANGED timers
         [] outcome = "not_ok" ->
                /\ runs' = [Logged(i, <<"extracting">>)
                                EXCEPT ![i].pc = "errorBody"]
                /\ progress' = "extracting"
                /\ UNCHANGED timers
         [] outcome = "rejected" -> CatchUpload(i)
    /\ UNCHANGED view
    /\ UNCHANGED <<calcVars, dbVars, reqVars>>

\* The body of a not-ok response has been read (as JSON, else as text): the
\* run throws the message it found.
ErrorBodySettles(i) ==
    /\ i \in DOMAIN runs /\ runs[i].pc = "errorBody"
    /\ CatchUpload(i)
    /\ UNCHANGED view
    /\ UNCHANGED <<calcVars, dbVars, reqVars>>

\* response.json() of an ok response settles.
JsonSettles(i, ok) ==
    /\ i \in DOMAIN runs /\ runs[i].pc = "json"
    /\ IF ok
       THEN /\ runs' = [Logged(i, <<"complete", "onUploadComplete", "setTimeout">>)
                            EXCEPT ![i].pc = "ended"]
            /\ progress' = "complete"
            /\ timers' = timers + 1
       ELSE CatchUpload(i)
    /\ UNCHANGED view
    /\ UNCHANGED <<calcVars, dbVars, reqVars>>

\* A delayed reset scheduled by an earlier run fires.
ResetFires ==
    /\ timers > 0
    /\ timers' = timers - 1
    /\ progress' = "idle"
    /\ UNCHANGED <<runs, view>>
    /\ UNCHANGED <<calcVars, dbVars, reqVars>>

NextUpload ==
    \/ \E file \in UploadFiles : processFile(file)
    \/ \E i \in 1..MaxRuns, ok \in BOOLEAN : AuthSettles(i, ok)
    \/ \E i \in 1..MaxRuns, ok \in BOOLEAN : UploadSettles(i, ok)
    \/ \E i \in 1..MaxRuns, outcome \in {"ok", "not_ok", "rejected"} :
           FetchSettles(i, outcome)
    \/ \E i \in 1..MaxRuns : ErrorBodySettles(i)
    \/ \E i \in 1..MaxRuns, ok \in BOOLEAN : JsonSettles(i, ok)
    \/ ResetFires

SpecUpload == InitPipe /\ [][NextUpload]_vars

\* Dashboard of one signed-in user.  Home renders it with the user's stored
\* records; the UploadZone hands it the record of every completed upload and
\* the results table reports every delete to it.  The view is the list of the
\* records it shows, each by its key.

DashUser == "u1"

\* The response of POST /api/extract arrives at the page that sent the request;
\* an ok response to the Dashboard's user reaches handleUploadComplete, which
\* puts the record at the head of the list.
handleUploadComplete ==
    /\ pc = "done"
    /\ IF httpResponse.status = 200 /\ req.caller = Some(DashUser)
       THEN view' = <<Key(httpResponse.body)>> \o view
       ELSE UNCHANGED view
    /\ pc' = "idle"
    /\ req' = Null
    /\ native' = Null
    /\ text' = Null
    /\ extracted' = Null
    /\ transformed' = Null
    /\ err' = Null
    /\ httpResponse' = Null
    /\ trace' = <<>>
    /\ UNCHANGED <<progress, runs, timers>>
    /\ UNCHANGED <<calcVars, dbVars>>

\* ExtractionsTable.handleDelete for a listed record: the delete statement
\* runs as the Dashboard's user and succeeds or fails; then onDelete(id), which
\* is Dashboard.handleDelete, filters the record out of the list.
handleDelete ==
    /\ \E k \in DOMAIN view :
          LET id == view[k][1]
          IN  /\ \/ table' = {r \in table : ~(r.id = id /\ RlsOwner(DashUser, r))}
                 \/ UNCHANGED table
              /\ view' = SelectSeq(view, LAMBDA e : e[1] # id)
    /\ UNCHANGED <<nextId, updates, files, last>>
    /\ UNCHANGED <<progress, runs, timers>>
    /\ UNCHANGED <<calcVars, reqVars>>

NextDash ==
    \/ StartRequest
    \/ GetUser
    \/ ParseBody
    \/ Download
    \/ NativeCall
    \/ NativeReturn
    \/ TextCall
    \/ TextReturn
    \/ Validate
    \/ Transform
    \/ Insert
    \/ Catch
    \/ handleUploadComplete
    \/ handleDelete

SpecDash == InitPipe /\ [][NextDash]_vars

\* ---------------------------------------------------------------------------
\* C1: computeIndInfRatio(indicated, inferred) returns null if and only if
\* indicated is null, inferred is null, or inferred equals 0; so an indicated
\* tonnage of 0 over a non-zero inferred tonnage yields a ratio.
C1_RatioNullIff ==
    Returned("computeIndInfRatio") =>
        (IsNull(ret) <=> \/ IsNull(call.indicated)
                         \/ IsNull(call.inferred)
                         \/ call.inferred = Some(0))

\* C2: a ratio that is returned is the hundredth nearest to
\* indicated/inferred, and a zero denominator returns null.
C2_RatioRounded ==
    Returned("computeIndInfRatio") =>
        /\ call.inferred = Some(0) => IsNull(ret)
        /\ ~IsNull(ret) =>
              /\ ~IsNull(call.indicated) /\ ~IsNull(call.inferred)
              /\ Val(call.inferred) # 0
              /\ 2 * Abs(100 * Val(call.indicated) - Val(ret) * Val(call.inferred))
                    <= Abs(Val(call.inferred))

\* 2/3 is returned as 0.67
C2_Witness ==
    /\ Returned("computeIndInfRatio")
    /\ call.indicated = Some(2) /\ call.inferred = Some(3)
    /\ ret = Some(67)

\* C3: computeResourceConfidence(ratio) is null iff ratio is null, high iff
\* ratio > 2, moderate iff 0.5 <= ratio <= 2, low iff ratio < 0.5.
C3_ConfidenceBuckets ==
    Returned("computeResourceConfidence") =>
        /\ IsNull(ret) <=> IsNull(call.ratio)
        /\ ret = Some("high") <=> (~IsNull(call.ratio) /\ Val(call.ratio) > 200)
        /\ ret = Some("moderate") <=>
              (~IsNull(call.ratio) /\ 50 <= Val(call.ratio) /\ Val(call.ratio) <= 200)
        /\ ret = Some("low") <=> (~IsNull(call.ratio) /\ Val(call.ratio) < 50)
        /\ call.ratio = Some(201) => ret = Some("high")
        /\ call.ratio = Some(50) => ret = Some("moderate")
        /\ call.ratio = Some(49) => ret = Some("low")

\* the boundary 2.0 is moderate
C3_Witness ==
    /\ Returned("computeResourceConfidence")
    /\ call.ratio = Some(200)
    /\ ret = Some("moderate")

C5_DerivedNotSupplied ==
    Returned("transformClaudeResponseToExtraction") =>
        \A dmRatio \in {Null, Some(999), Some(40)}, dmConf \in Nullable(ResourceConfidences) :
            transformClaudeResponseToExtraction(
                [call.response EXCEPT !.derived_metrics =
                    [indicated_inferred_ratio |-> dmRatio, resource_confidence |-> dmConf]],
                call.userId, call.pdfFilename, call.pdfUrl) = ret

\* a payload that supplies ratio 9.99 / high while its tonnages give 0.40 / low
C5_Witness ==
    /\ Returned("transformClaudeResponseToExtraction")
    /\ call.response.derived_metrics.indicated_inferred_ratio = Some(999)
    /\ call.response.derived_metrics.resource_confidence = Some("high")
    /\ ret.ind_inf_ratio = Some(40)
    /\ ret.resource_confidence = Some("low")

\* ------------------------------------------------- claims on the pipeline and the table
Count(name) == Cardinality({i \in DOMAIN trace : trace[i] = name})

\* C6: every stored record has ind_inf_ratio = computeIndInfRatio of its
\* tonnages, resource_confidence = computeResourceConfidence of its ratio and
\* status = computeStatus of its own fields, after any inserts, updates and
\* deletes.
C6_StoredDerivedConsistent ==
    \A r \in table :
        /\ r.ind_inf_ratio = computeIndInfRatio(r.total_indicated_mt, r.total_inferred_mt)
        /\ r.resource_confidence = computeResourceConfidence(r.ind_inf_ratio)
        /\ r.status = Some(computeStatus(r))

\* the value extractFromPdf returned is an object that lacks a required section
MissingSection ==
    /\ extracted # Null
    /\ extracted.type = "object"
    /\ \E key \in {"metadata", "project_basics", "resource_estimate", "economics",
                   "risk_assessment", "investment_analysis", "derived_metrics"} :
          key \notin DOMAIN extracted.members

\* C7: a payload that lacks one of the seven sections is answered with the
\* validation error before the transformer runs: it is never transformed and
\* never inserted.
C7_ValidationShortCircuits ==
    MissingSection =>
        /\ Count("transform") = 0
        /\ Count("insert") = 0
        /\ transformed = Null
        /\ pc \in {"validate", "done"}
        /\ pc = "done" =>
              /\ httpResponse = Json(500, "Invalid extraction response from AI")
              /\ Count("validate") = 1

\* a reply without derived_metrics has been answered
C7_Witness ==
    /\ MissingSection
    /\ "derived_metrics" \notin DOMAIN extracted.members
    /\ pc = "done"
    /\ httpResponse.status = 500

\* C8: the transformed record carries the authenticated caller's id, the file
\* name, the file's URL, null notes, and every field of the six content
\* sections unchanged.
C8_FieldsCopied ==
    transformed # Null =>
        /\ Count("auth") = 1
        /\ ~IsNull(req.caller)
        /\ transformed.user_id = Val(req.caller)
        /\ transformed.pdf_filename =
              (IF IsNull(req.originalFilename)
               THEN Val(req.storagePath)[2] ELSE Val(req.originalFilename))
        /\ transformed.pdf_url = <<"publicUrl", Val(req.storagePath)>>
        /\ transformed.notes = Null
        /\ \A key \in {"metadata", "project_basics", "resource_estimate", "economics",
                       "risk_assessment", "investment_analysis"} :
              \A f \in DOMAIN extracted.members[key] :
                  transformed[f] = extracted.members[key][f]

\* u2's file, sent without a file name, has been transformed
C8_Witness ==
    /\ transformed # Null
    /\ transformed.user_id = "u2"
    /\ IsNull(req.originalFilename)
    /\ transformed.pdf_filename = "b.pdf"
    /\ transformed.indicated_avg_grade = Some(<<"indicated_avg_grade", 1>>)
    /\ transformed.inferred_avg_grade = Some(<<"inferred_avg_grade", 1>>)

\* the native attempt failed with a message that matches the size-limit pattern
NativeSizeLimitMessage ==
    /\ native # Null
    /\ ~native.ok
    /\ ("100 PDF pages" \in native.error.msg \/ "maximum" \in native.error.msg)

\* C9: after a native failure whose message matches the size-limit pattern
\* the text path runs exactly once and extractFromPdf ends as the text path
\* ends: with its parsed value, or with its error.
C9_FallbackOutcome ==
    NativeSizeLimitMessage =>
        /\ pc \notin {"nativeWait", "catch"} \/ text # Null
        /\ pc \notin {"text", "textWait"} =>
              /\ Count("text") = 1
              /\ Count("textApi") <= 1
              /\ Count("nativeApi") = 1
              /\ text # Null
              /\ text.ok => extracted = text.value
              /\ ~text.ok => /\ err = text.error
                             /\ extracted = Null
                             /\ Count("validate") = 0

\* the fallback succeeded after "100 PDF pages" and the record was stored
C9_Witness ==
    /\ NativeSizeLimitMessage
    /\ "100 PDF pages" \in native.error.msg
    /\ text # Null
    /\ text.ok
    /\ pc = "done"
    /\ httpResponse.status = 200

\* C10: a native failure that is not a page-count/size ceiling (rate limit,
\* overload, authentication, timeout, malformed reply, any other error)
\* propagates at once: the text path is not entered and no second call is made.
C10_OtherFailuresPropagate ==
    (native # Null /\ ~native.ok /\ native.error.kind # "size_limit") =>
        /\ pc \notin {"text", "textWait"}
        /\ Count("text") = 0
        /\ Count("textApi") = 0
        /\ err = native.error

\* the reply to the native attempt could not be parsed as structured data
NativeReplyMalformed ==
    /\ native # Null
    /\ ~native.ok
    /\ native.error.kind \in {"no_text", "syntax"}

\* C11: when the reply to the native attempt cannot be parsed (no text
\* block, or text that is not JSON) extractFromPdf fails and makes no further
\* API call: the text path never runs, whatever the parse-error message says.
C11_MalformedReplyNoFallback ==
    NativeReplyMalformed =>
        /\ pc \in {"catch", "done"}
        /\ text = Null
        /\ Count("text") = 0
        /\ Count("textApi") = 0
        /\ Count("nativeApi") = 1

\* C12: within one request the API is called at most once in native mode and
\* at most once in text mode, the text call starts only after the native call
\* has failed, and a rate-limit or overload failure is followed by no call.
C12_NoRetry ==
    /\ Count("nativeApi") <= 1
    /\ Count("textApi") <= 1
    /\ Count("textApi") = 1 =>
          /\ native # Null /\ ~native.ok
          /\ pc # "nativeWait"
          /\ \E i, j \in DOMAIN trace :
                i < j /\ trace[i] = "nativeApi" /\ trace[j] = "textApi"
    /\ (native # Null /\ ~native.ok /\ native.error.kind \in {"rate_limit", "overloaded"}) =>
          /\ Count("textApi") = 0
          /\ pc \notin {"text", "textWait"}
    /\ (text # Null /\ ~text.ok) =>
          /\ Count("nativeApi") + Count("textApi") <= 2
          /\ pc \in {"catch", "done"}

\* ------------------------------------------------- claims on the fallback text
\* C13: for every extracted text t and the budget 150000: if t is longer
\* than 150000 characters the text sent is the first 150000 characters of t
\* followed by the truncation marker, so it is 150000 + 39 characters long;
\* otherwise the text sent is t, without the marker.
C13_TruncationRule ==
    Returned("truncatedText") =>
        LET t == jsToString(call.pdfText)
        IN  IF strLen(t) > 150000
            THEN /\ ret = strSlice(t, 150000) \o truncationMarker
                 /\ strLen(ret) = 150000 + 39
            ELSE /\ ret = t
                 /\ \A i \in DOMAIN ret : ret[i].src # "marker"

\* ------------------------------------------------- claims on the persistence gateway
\* the step is a call of the gateway by someone who does not own the
\* existing record it names
NonOwnerCall ==
    /\ last' # last
    /\ last'.op \in {"getExtraction", "updateExtraction", "deleteExtraction"}
    /\ \E r \in table : r.id = last'.id /\ r.user_id # last'.uid

\* C14: getExtraction, updateExtraction or deleteExtraction called on an
\* existing record by someone who is not its owner fails with an
\* authorization failure; it returns neither null nor success.
C14_NonOwnerRefused ==
    [][NonOwnerCall =>
          /\ ~last'.result.ok
          /\ last'.result.error.kind = "row_security"]_vars

\* C15: every record keeps its one owner; what getExtractions and
\* getExtraction return to a user are records of the table owned by that
\* user; a record changes or disappears only in a successful update or
\* delete of that record issued by its owner.
C15_RowLevelIsolation ==
    [][/\ last' # Null
       /\ \A r \in table' : r.user_id \in Users
       /\ \A r, q \in table' : r.id = q.id => r = q
       /\ \A r \in table, q \in table' : r.id = q.id => r.user_id = q.user_id
       /\ (last'.op = "getExtractions") =>
             \A i \in DOMAIN last'.result.value :
                 /\ last'.result.value[i][2] = last'.uid
                 /\ \E r \in table : Key(r) = last'.result.value[i]
       /\ (last'.op = "getExtraction" /\ ~IsNull(last'.result.value)) =>
             /\ Val(last'.result.value) = <<last'.id, last'.uid>>
             /\ \E r \in table : Key(r) = Val(last'.result.value)
       /\ (last'.op = "insertExtraction" /\ last'.result.ok) =>
             last'.result.value[2] = last'.uid
       /\ \A r \in table : r \notin table' =>
             /\ last'.op \in {"updateExtraction", "deleteExtraction"}
             /\ last'.result.ok
             /\ last'.uid = r.user_id
             /\ last'.id = r.id]_vars

\* the owner's attempt to hand a record to another user was refused and the
\* record is still the owner's
C15_Witness ==
    /\ last # Null
    /\ last.op = "updateExtraction"
    /\ last.result = Throw(Error("row_security", {}))
    /\ \E r \in table : r.id = last.id /\ r.user_id = last.uid

\* C16: an update leaves a record's id, user_id, created_at, ind_inf_ratio,
\* resource_confidence and status as they were; a stored record changes in
\* its notes only.
C16_UpdateOnlyNotes ==
    [][\A r \in table, q \in table' :
          r.id = q.id =>
              /\ q.user_id = r.user_id
              /\ q.created_at = r.created_at
              /\ q.ind_inf_ratio = r.ind_inf_ratio
              /\ q.resource_confidence = r.resource_confidence
              /\ q.status = r.status
              /\ \A f \in DOMAIN r \ {"notes"} : q[f] = r[f]]_vars

\* ------------------------------------------------- claims on the request as a whole
\* the steps of a request that reaches the insert, through the native
\* attempt alone or through the text path
StepsBeforeInsert ==
    { <<"auth", "body", "download", "nativeApi", "validate", "transform">>,
      <<"auth", "body", "download", "nativeApi", "text", "textApi",
        "validate", "transform">> }

\* C17: a row enters the table only in the last step of a request, after
\* authentication, the path check, the download, the extraction, the
\* validation and the transformation have succeeded in that order; a request
\* that fails inserts nothing; no step removes a stored file.
C17_InsertLast ==
    [][/\ files' = files
       /\ table' # table =>
             /\ pc = "insert" /\ pc' = "done"
             /\ trace \in StepsBeforeInsert
             /\ ~IsNull(req.caller)
             /\ ~IsNull(req.storagePath)
             /\ Val(req.storagePath)[1] = Val(req.caller)
             /\ Val(req.storagePath) \in files
             /\ extracted.type = "object"
             /\ \A key \in {"metadata", "project_basics", "resource_estimate",
                            "economics", "risk_assessment", "investment_analysis",
                            "derived_metrics"} : key \in DOMAIN extracted.members
             /\ transformed # Null
             /\ httpResponse'.status = 200
             /\ table' = table \cup {httpResponse'.body}
       /\ (pc # "done" /\ pc' = "done" /\ httpResponse'.status # 200) =>
             table' = table]_vars

\* a request that went through the text path has stored its row
C17_Witness ==
    /\ pc = "done"
    /\ httpResponse.status = 200
    /\ httpResponse.body \in table
    /\ trace = <<"auth", "body", "download", "nativeApi", "text", "textApi",
                 "validate", "transform", "insert">>

\* the caller named a file outside the folder that carries their id
ForeignPath ==
    /\ req # Null
    /\ ~IsNull(req.caller)
    /\ req.bodyValid
    /\ ~IsNull(req.storagePath)
    /\ Val(req.storagePath)[1] # Val(req.caller)

\* C18: a request whose storagePath does not start with "<caller id>/" is
\* answered 403 without a download, an API call or an insert; every answer
\* that carries an extraction, and every stored row, is of a file under its
\* owner's folder.
C18_ForeignPathRefused ==
    /\ (ForeignPath /\ Count("body") = 1) =>
          /\ pc = "done"
          /\ httpResponse = Json(403, "Unauthorized access to file")
          /\ trace = <<"auth", "body">>
          /\ native = Null /\ text = Null /\ extracted = Null /\ transformed = Null
    /\ (pc = "done" /\ httpResponse.status = 200) =>
          /\ ~ForeignPath
          /\ httpResponse.body.user_id = Val(req.caller)
          /\ httpResponse.body.pdf_url = <<"publicUrl", Val(req.storagePath)>>
    /\ \A r \in table : r.pdf_url[2][1] = r.user_id

\* u2 asked for u1's file and was refused
C18_Witness ==
    /\ ForeignPath
    /\ req.caller = Some("u2")
    /\ req.storagePath = Some(<<"u1", "a.pdf">>)
    /\ pc = "done"
    /\ httpResponse.status = 403

\* C19: a request without a caller identity is answered 401 Unauthorized
\* before anything else: its body is not read, nothing is downloaded, the
\* API is not called and nothing is inserted.
C19_UnauthorizedFirst ==
    (req # Null /\ IsNull(req.caller) /\ Count("auth") = 1) =>
        /\ pc = "done"
        /\ httpResponse = Json(401, "Unauthorized")
        /\ trace = <<"auth">>
        /\ native = Null /\ text = Null /\ extracted = Null /\ transformed = Null
        /\ err = Null

\* a request without a caller whose body is not JSON was answered 401
C19_Witness ==
    /\ req # Null
    /\ IsNull(req.caller)
    /\ ~req.bodyValid
    /\ pc = "done"
    /\ httpResponse.status = 401

\* C20: an exception caught by POST is answered with the status of the first
\* matching test in the order 429, 401, 503, 413, 422, 504, else 500; a
\* storage failure, a malformed external reply and an unclassified exception
\* are answered 500 and external throttling is answered 429.
C20_ErrorMapping ==
    pc = "done" =>
        /\ Count("catch") = 1 =>
              LET msg == err.msg
              IN  httpResponse.status =
                      IF "rate_limit" \in msg \/ "429" \in msg THEN 429
                      ELSE IF "authentication" \in msg \/ "401" \in msg THEN 401
                      ELSE IF "overloaded" \in msg \/ "503" \in msg THEN 503
                      ELSE IF "too large" \in msg \/ "413" \in msg \/ "entity" \in msg THEN 413
                      ELSE IF "could not extract" \in msg \/ "corrupted" \in msg THEN 422
                      ELSE IF "timeout" \in msg \/ "TIMEOUT" \in msg THEN 504
                      ELSE 500
        /\ (Count("download") = 1 /\ Count("nativeApi") = 0) =>
              httpResponse.status = 500
        /\ \A outcome \in {native, text} :
              (outcome # Null /\ ~outcome.ok) =>
                  /\ outcome.error.kind \in {"no_text", "syntax", "other", "extract_text"} =>
                        httpResponse.status = 500
                  /\ outcome.error.kind = "rate_limit" => httpResponse.status = 429
        /\ (err # Null /\ err.kind \in {"body", "type_error"}) =>
              httpResponse.status = 500

\* C21: a request is answered 413 only after the text path was attempted:
\* whenever the response has status 413, extractFromPdfText has run.
C21_TooLargeOnlyAfterFallback ==
    (pc = "done" /\ httpResponse.status = 413) =>
        /\ Count("text") = 1
        /\ native # Null /\ ~native.ok

\* C22: no failure is turned into a normal-looking result: when the
\* statement of a persistence call reported an error, the call ends in an
\* error outcome, never in a returned list, record or null.
C22_NoFailureSwallowed ==
    (last # Null /\ ~IsNull(last.dbError)) =>
        /\ ~last.result.ok
        /\ last.result.error.kind = Val(last.dbError)

\* C23: the upload boundary rejects a document that is not a PDF and a file
\* larger than 50MB before any processing: a run given such a file makes no
\* authentication lookup, no storage upload and no /api/extract request, and
\* ends in the error outcome.
Made(i, event) == \E k \in DOMAIN runs[i].log : runs[i].log[k] = event

C23_UploadBoundary ==
    \A i \in DOMAIN runs :
        (~runs[i].file.isPdf \/ runs[i].file.size > MAX_FILE_SIZE) =>
            /\ ~Made(i, "getUser")
            /\ ~Made(i, "storage.upload")
            /\ ~Made(i, "fetch")
            /\ runs[i].pc = "ended" /\ Made(i, "onUploadError")

\* C27: at most one upload pipeline is in flight at a time: while a processFile
\* run has not reached its complete or error outcome, the progress state is
\* none of idle, complete and error (isProcessing is true), and no other run
\* is in flight.
InFlight(i) == runs[i].pc # "ended"

C27_OnePipelineInFlight ==
    \A i \in DOMAIN runs :
        InFlight(i) =>
            /\ isProcessing
            /\ \A j \in DOMAIN runs : InFlight(j) => j = i

\* C28: every processFile run ends properly: the progress states it sets are
\* in the order validating, uploading, processing, extracting, saving and then
\* complete or error; a run that has ended has called exactly one of
\* onUploadComplete and onUploadError, once; and once every run has ended and
\* no reset is pending, the progress state is back to idle.
StateRank(event) ==
    CASE event = "validating" -> 1
      [] event = "uploading" -> 2
      [] event = "processing" -> 3
      [] event = "extracting" -> 4
      [] event = "saving" -> 5
      [] event \in {"complete", "error"} -> 6
      [] OTHER -> 0

Times(i, event) ==
    Cardinality({k \in DOMAIN runs[i].log : runs[i].log[k] = event})

C28_RunEndsAndResets ==
    /\ \A i \in DOMAIN runs :
          /\ \A k, m \in DOMAIN runs[i].log :
                (k < m /\ StateRank(runs[i].log[k]) > 0
                       /\ StateRank(runs[i].log[m]) > 0)
                    => StateRank(runs[i].log[k]) < StateRank(runs[i].log[m])
          /\ ~InFlight(i) =>
                Times(i, "onUploadComplete") + Times(i, "onUploadError") = 1
    /\ (runs # <<>> /\ timers = 0 /\ \A i \in DOMAIN runs : ~InFlight(i))
          => progress = "idle"

\* C26: every payload accepted by validateExtractionResponse can be
\* transformed: once a request's payload has passed validation, the
\* transformation does not throw, so the request does not reach the catch
\* block from the transform step.
C26_ValidatedTransforms ==
    (extracted # Null /\ Count("validate") = 1
                      /\ validateExtractionResponse(extracted)) =>
        /\ ~TransformThrows(extracted.members)
        /\ Count("transform") = 1 => pc # "catch"

\* C30: the confidence thresholds are the same everywhere: for every non-null
\* ratio the label of RatioDisplay and the colour of the table's ratio cell
\* correspond to computeResourceConfidence(ratio), and the ratio is shown as
\* absent only when it is null.
BucketOfLabel(label) ==
    CASE label = "High confidence" -> "high"
      [] label = "Moderate" -> "moderate"
      [] label = "Low confidence" -> "low"

BucketOfColor(color) ==
    CASE color = "green" -> "high"
      [] color = "yellow" -> "moderate"
      [] color = "red" -> "low"

C30_SameThresholds ==
    Returned("renderRatio") =>
        LET bucket == computeResourceConfidence(call.ratio)
        IN  /\ IsNull(ret.display) <=> IsNull(call.ratio)
            /\ IsNull(ret.cell) <=> IsNull(call.ratio)
            /\ ~IsNull(call.ratio) =>
                  /\ BucketOfLabel(Val(ret.display).label) = Val(bucket)
                  /\ BucketOfColor(Val(ret.display).color) = Val(bucket)
                  /\ BucketOfColor(Val(ret.cell)) = Val(bucket)

\* C29: the Dashboard's list stays consistent with the database: when no
\* request is in progress, the list is the stored records of the Dashboard's
\* user, newest first.
C29_ViewMatchesDatabase ==
    pc = "idle" =>
        view = newestFirst({r \in table : r.user_id = DashUser})

\* C24: CSV export round trip: re-reading an exported file as rows of
\* comma-separated fields (a field may be enclosed in double quotes, inside
\* which a doubled quote is one quote and commas and line breaks are text)
\* yields the header and then one row per exported record, each with the
\* header's number of fields and each field equal to the exported value.
RECURSIVE readField(_, _, _, _)
\* the field starting at i, and the position of the separator that ends it
readField(csv, i, inQuotes, field) ==
    IF i > Len(csv) THEN [field |-> field, next |-> i]
    ELSE IF inQuotes
         THEN IF csv[i] = Quote
              THEN IF i < Len(csv) /\ csv[i + 1] = Quote
                   THEN readField(csv, i + 2, TRUE, Append(field, Quote))
                   ELSE readField(csv, i + 1, FALSE, field)
              ELSE readField(csv, i + 1, TRUE, Append(field, csv[i]))
         ELSE IF csv[i] = Quote /\ field = <<>>
              THEN readField(csv, i + 1, TRUE, field)
         ELSE IF csv[i] \in {Comma, LineBreak}
              THEN [field |-> field, next |-> i]
         ELSE readField(csv, i + 1, FALSE, Append(field, csv[i]))

RECURSIVE readRow(_, _, _)
readRow(csv, i, row) ==
    LET f == readField(csv, i, FALSE, <<>>)
    IN  IF f.next > Len(csv)
        THEN [row |-> Append(row, f.field), next |-> f.next, ended |-> TRUE]
        ELSE IF csv[f.next] = LineBreak
        THEN [row |-> Append(row, f.field), next |-> f.next + 1, ended |-> FALSE]
        ELSE readRow(csv, f.next + 1, Append(row, f.field))

RECURSIVE readRows(_, _, _)
readRows(csv, i, rows) ==
    LET r == readRow(csv, i, <<>>)
    IN  IF r.ended THEN Append(rows, r.row)
        ELSE readRows(csv, r.next, Append(rows, r.row))

readCsv(csv) == readRows(csv, 1, <<>>)

RoundTrips(csv, headers, rows) == readCsv(csv) = <<headers>> \o rows

C24_CsvRoundTrip ==
    Returned("export") =>
        /\ RoundTrips(ret.table.csv, tableHeaders,
                      [i \in DOMAIN ret.table.records |-> tableRow(ret.table.records[i])])
        /\ ret.dashboard # Null =>
              RoundTrips(ret.dashboard.csv, csvHeaders,
                         [i \in DOMAIN ret.dashboard.records |->
                             csvRow(ret.dashboard.records[i])])

\* C25: an export serializes the currently filtered and sorted record set:
\* the exported records are exactly those that pass the search text and all
\* active filters, in the order of the current sort field and direction, and
\* the columns are date, project, issuer, commodity, country, stage, ratio,
\* priority, status, score.
Elems(xs) == {xs[i] : i \in DOMAIN xs}

InSortOrder(xs, sort) ==
    \A i, j \in DOMAIN xs :
        (i < j /\ ~IsNull(sortKey(xs[i], sort.field))
               /\ ~IsNull(sortKey(xs[j], sort.field))) =>
            IF sort.direction = "asc"
            THEN ~lessThan(Val(sortKey(xs[j], sort.field)), Val(sortKey(xs[i], sort.field)))
            ELSE ~lessThan(Val(sortKey(xs[i], sort.field)), Val(sortKey(xs[j], sort.field)))

ExportsCurrentView(export) ==
    /\ Elems(export.records) =
          {e \in Elems(call.extractions) :
              matchesSearch(e, call.search) /\ matchesFilters(e, call.filters)}
    /\ Len(export.records) = Cardinality(Elems(export.records))
    /\ InSortOrder(export.records, call.sort)
    /\ export.headers =
          << <<"Date">>, <<"Project">>, <<"Issuer">>, <<"Commodity">>,
             <<"Country">>, <<"Stage">>, <<"Ind/Inf Ratio">>, <<"Priority">>,
             <<"Status">>, <<"Magellan Score">> >>

C25_ExportsFilteredSorted ==
    Returned("export") =>
        /\ ExportsCurrentView(ret.table)
        /\ ret.dashboard # Null => ExportsCurrentView(ret.dashboard)

====
